---- MODULE Spec2Model ----
(***************************************************************************)
(* Model of the Yun game rule engine (Rule) and of the episode controller  *)
(* (YunEnv) of src/model/env.py.  The last actions kept for the diagnostic *)
(* info (_agent_action, _opponent_action) are read by no operation and are *)
(* not part of the state.                                                  *)
(*                                                                         *)
(* Two specifications are given:                                           *)
(*   Spec      the episode state machine: construction, reset, step        *)
(*   SpecRule  the pure functions of Rule / YunEnv applied to inputs drawn *)
(*             from bounded sets                                           *)
(***************************************************************************)
EXTENDS Integers, Sequences, FiniteSets

(***************************************************************************)
(* Bounds of the model                                                     *)
(***************************************************************************)
\* largest n_max_energy / level / max_episode_steps explored by Spec
MaxEnergyBound == 1
MaxLevelBound == 1
MaxEpisodeStepsBound == 3
\* largest n_max_energy / level explored by SpecRule
RuleEnergyBound == 5
RuleLevelBound == 3
\* how far outside [0, 2*level] the action ids given to decode_action go
IdSlack == 2

(***************************************************************************)
(* Python values                                                           *)
(***************************************************************************)
\* Python's None as an action id (never a member of the integer ids used)
None == 0 - 1000
\* an attribute that __init__ does not create (set by reset only)
NoAttr == 0 - 1

Min(a, b) == IF a <= b THEN a ELSE b

VARIABLES
    rule,               \* Rule: [n_max_energy, level, init_energy]
    max_episode_steps,  \* YunEnv.max_episode_steps
    train,              \* YunEnv.train
    opponent,           \* YunEnv.opponent: "None" or "policy"
    started,            \* reset has created the episode attributes
    agent_state,        \* YunEnv._agent_state
    opponent_state,     \* YunEnv._opponent_state
    game_state,         \* YunEnv._game_state (0 continue, 1 loss, 2 win)
    i_step,             \* YunEnv._i_step
    obs_history,        \* YunEnv.obs_history
    policy_call,        \* arguments of the last opponent.step call
    ret,                \* what the last reset / step call returned
    ended,              \* a step of this episode returned terminated/truncated
    overran,            \* step was called again after the episode ended
    fn,                 \* SpecRule: the function applied
    args,               \* SpecRule: its inputs
    result              \* SpecRule: [raised, value], how the call ended

envvars == <<max_episode_steps, train, opponent, started, agent_state,
             opponent_state, game_state, i_step, obs_history, policy_call,
             ret, ended, overran>>
callvars == <<fn, args, result>>
vars == <<rule, envvars, callvars>>

(***************************************************************************)
(* Rule                                                                    *)
(***************************************************************************)
\* Rule.__init__
n_max_actions(r) == 1 + r.level * 2

Rules(maxE, maxL) ==
    UNION { { [n_max_energy |-> e, level |-> l, init_energy |-> i] :
                l \in 1..maxL, i \in 0..e } : e \in 1..maxE }

\* Rule.decode_action: <<yun, attack, defense>>
decode_action_none_is_yun(r, action_id) ==
    IF action_id = None THEN <<1, 0, 0>>
    ELSE IF action_id = 0 THEN <<1, 0, 0>>
    ELSE IF action_id < r.level + 1 THEN <<0, action_id, 0>>
    ELSE <<0, 0, action_id - r.level>>

decode_action_off_by_one(r, action_id) ==
    IF action_id = None THEN <<0, 0, 0>>
    ELSE IF action_id = 0 THEN <<1, 0, 0>>
    ELSE IF action_id < r.level THEN <<0, action_id, 0>>
    ELSE <<0, 0, action_id - r.level>>

decode_action(r, action_id) ==
    IF action_id = None THEN <<0, 0, 0>>
    ELSE IF action_id = 0 THEN <<1, 0, 0>>
    ELSE IF action_id < r.level + 1 THEN <<0, action_id, 0>>
    ELSE <<0, 0, action_id - r.level>>

\* Rule.encode_action
encode_action(r, yun, attack, defense) ==
    IF yun # 0 THEN 0
    ELSE IF attack # 0 THEN attack
    ELSE defense + r.level

\* a slice bound of an array of length n: a negative one counts from the
\* end, and the result is clipped to 0..n
SliceBound(b, n) ==
    IF b < 0 THEN (IF b + n < 0 THEN 0 ELSE b + n) ELSE Min(b, n)

\* the indices of an array of length n that the numpy slice A[lo:hi] selects
Slice(lo, hi, n) ==
    { i \in 0..(n - 1) : SliceBound(lo, n) <= i /\ i < SliceBound(hi, n) }

\* Rule.available_actions: the mask as a function 0..n_max_actions-1 -> {0,1}
Rule_available_actions_own_defense(r, s1, s2) ==
    LET n == n_max_actions(r)
        ones == {0} \cup Slice(1, Min(r.level, s1) + 1, n)
                    \cup Slice(r.level + 1, Min(r.level, s1) + r.level + 1, n)
    IN  [i \in 0..(n - 1) |-> IF i \in ones THEN 1 ELSE 0]

\* the mask with one attack level too many
Rule_available_actions_one_more_attack(r, s1, s2) ==
    LET n == n_max_actions(r)
        ones == {0} \cup Slice(1, Min(r.level, s1 + 1) + 1, n)
                    \cup Slice(r.level + 1, Min(r.level, s2) + r.level + 1, n)
    IN  [i \in 0..(n - 1) |-> IF i \in ones THEN 1 ELSE 0]

Rule_available_actions(r, s1, s2) ==
    LET n == n_max_actions(r)
        ones == {0} \cup Slice(1, Min(r.level, s1) + 1, n)
                    \cup Slice(r.level + 1, Min(r.level, s2) + r.level + 1, n)
    IN  [i \in 0..(n - 1) |-> IF i \in ones THEN 1 ELSE 0]

\* Rule.step, "handle states": the energy left after the action, capped
next_state_uncapped(r, state, y, a) == state + y - a

next_state(r, state, y, a) == Min(state + y - a, r.n_max_energy)

\* Rule.step, "handle result": 2 agent win, 1 agent loss, 0 continue
result_ignores_defense(a1, d1, a2, d2) ==
    IF a1 # 0 /\ a1 > a2 THEN 2
    ELSE IF a2 # 0 /\ a2 > a1 THEN 1
    ELSE 0

\* an equal attack counted as the agent's win
result_ties_to_agent(a1, d1, a2, d2) ==
    IF a1 # 0 /\ a1 >= a2 /\ a1 # d2 THEN 2
    ELSE IF a2 # 0 /\ a2 > a1 /\ a2 # d1 THEN 1
    ELSE 0

handle_result(a1, d1, a2, d2) ==
    IF a1 # 0 /\ a1 > a2 /\ a1 # d2 THEN 2
    ELSE IF a2 # 0 /\ a2 > a1 /\ a2 # d1 THEN 1
    ELSE 0

StepResult(s1, s2, g) == [agent |-> s1, opponent |-> s2, game |-> g]

\* Rule.step with the agent's overspending forgiven like the opponent's
Rule_step_forgives_agent(r, agent_st, opponent_st, agent_act, opponent_act) ==
    LET A1 == decode_action(r, agent_act)
        A2 == decode_action(r, opponent_act)
        y1 == A1[1]  a1 == A1[2]  d1 == A1[3]
        y2 == A2[1]  d2 == A2[3]
        agent_next == next_state(r, agent_st, y1, a1)
        opponent_next0 == next_state(r, opponent_st, y2, A2[2])
        opponent_next == IF opponent_next0 < 0 THEN 0 ELSE opponent_next0
        a2 == IF opponent_next0 < 0 THEN 0 ELSE A2[2]
    IN  IF agent_next < 0
          THEN StepResult(0, opponent_next, handle_result(0, d1, a2, d2))
        ELSE IF d1 > opponent_st
          THEN StepResult(agent_next, opponent_next, 1)
        ELSE StepResult(agent_next, opponent_next,
                        handle_result(a1, d1, a2, d2))

\* Rule.step with the defense compared to the opponent's next energy
Rule_step_defense_vs_next(r, agent_st, opponent_st, agent_act, opponent_act) ==
    LET A1 == decode_action(r, agent_act)
        A2 == decode_action(r, opponent_act)
        y1 == A1[1]  a1 == A1[2]  d1 == A1[3]
        y2 == A2[1]  d2 == A2[3]
        agent_next == next_state(r, agent_st, y1, a1)
        opponent_next0 == next_state(r, opponent_st, y2, A2[2])
        opponent_next == IF opponent_next0 < 0 THEN 0 ELSE opponent_next0
        a2 == IF opponent_next0 < 0 THEN 0 ELSE A2[2]
    IN  IF agent_next < 0
          THEN StepResult(0, opponent_next, 1)
        ELSE IF d1 > opponent_next
          THEN StepResult(agent_next, opponent_next, 1)
        ELSE StepResult(agent_next, opponent_next,
                        handle_result(a1, d1, a2, d2))

\* Rule.step with the opponent's unaffordable attack still counted
Rule_step_keeps_attack(r, agent_st, opponent_st, agent_act, opponent_act) ==
    LET A1 == decode_action(r, agent_act)
        A2 == decode_action(r, opponent_act)
        y1 == A1[1]  a1 == A1[2]  d1 == A1[3]
        y2 == A2[1]  d2 == A2[3]
        agent_next == next_state(r, agent_st, y1, a1)
        opponent_next0 == next_state(r, opponent_st, y2, A2[2])
        opponent_next == IF opponent_next0 < 0 THEN 0 ELSE opponent_next0
        a2 == A2[2]
    IN  IF agent_next < 0
          THEN StepResult(0, opponent_next, 1)
        ELSE IF d1 > opponent_st
          THEN StepResult(agent_next, opponent_next, 1)
        ELSE StepResult(agent_next, opponent_next,
                        handle_result(a1, d1, a2, d2))

\* Rule.step
Rule_step(r, agent_st, opponent_st, agent_act, opponent_act) ==
    LET A1 == decode_action(r, agent_act)
        A2 == decode_action(r, opponent_act)
        y1 == A1[1]  a1 == A1[2]  d1 == A1[3]
        y2 == A2[1]  d2 == A2[3]
        agent_next == next_state(r, agent_st, y1, a1)
        opponent_next0 == next_state(r, opponent_st, y2, A2[2])
        \* the opponent's overspending is forgiven: the attack is void
        opponent_next == IF opponent_next0 < 0 THEN 0 ELSE opponent_next0
        a2 == IF opponent_next0 < 0 THEN 0 ELSE A2[2]
    IN  IF agent_next < 0                       \* punish invalid actions
          THEN StepResult(0, opponent_next, 1)
        ELSE IF d1 > opponent_st                \* punish stupid actions
          THEN StepResult(agent_next, opponent_next, 1)
        ELSE StepResult(agent_next, opponent_next,
                        handle_result(a1, d1, a2, d2))

(***************************************************************************)
(* YunEnv                                                                  *)
(***************************************************************************)
\* YunEnv.__init__: N, the two terminal observations, observation_space.n
N(r) == r.n_max_energy + 1
win_state_id(r) == N(r) * N(r) + 1
loss_state_id(r) == N(r) * N(r)
observation_space_n(r) == N(r) * N(r) + 2
\* action_space = Discrete(n_max_actions); sample() draws from it
action_space(r) == 0..(n_max_actions(r) - 1)

\* YunEnv.convert_obs
convert_obs(S1, S2, r) ==
    Min(S1, r.n_max_energy) * N(r) + Min(S2, r.n_max_energy)

\* YunEnv.convert_states
convert_states(observation, r) == <<observation \div N(r), observation % N(r)>>

\* YunEnv.available_actions
YunEnv_available_actions(r, observation) ==
    IF observation < N(r) * N(r)
      THEN LET s == convert_states(observation, r)
           IN  Rule_available_actions(r, s[1], s[2])
      ELSE [i \in action_space(r) |-> 1]

\* _get_obs with the row stride one short
get_obs_short_stride(r, s1, s2, g) ==
    IF g = 0 THEN s1 * r.n_max_energy + s2
    ELSE IF g = 1 THEN loss_state_id(r)
    ELSE win_state_id(r)

\* YunEnv._get_obs
get_obs(r, s1, s2, g) ==
    IF g = 0 THEN s1 * N(r) + s2
    ELSE IF g = 1 THEN loss_state_id(r)
    ELSE win_state_id(r)

\* _oppo_obs with the terminal observations of the agent
oppo_obs_same_sentinels(r, s1, s2, g) ==
    IF g = 0 THEN s2 * N(r) + s1
    ELSE IF g = 1 THEN loss_state_id(r)
    ELSE win_state_id(r)

\* YunEnv._oppo_obs
oppo_obs(r, s1, s2, g) ==
    IF g = 0 THEN s2 * N(r) + s1
    ELSE IF g = 1 THEN win_state_id(r)
    ELSE loss_state_id(r)

\* the reward with win and loss exchanged
reward_of_swapped(g) == IF g = 1 THEN 1 ELSE IF g = 2 THEN 0 - 1 ELSE 0

\* YunEnv.step: the reward of a game state
reward_of(g) == IF g = 2 THEN 1 ELSE IF g = 1 THEN 0 - 1 ELSE 0

\* YunEnv.step: truncate if the state is visited or the budget is used up;
\* i is _i_step after its increment
truncated_late(history, observation, i, K) ==
    (\E k \in DOMAIN history : history[k] = observation) \/ i > K

truncated_budget_only(history, observation, i, K) == i >= K

truncated_early(history, observation, i, K) ==
    (\E k \in DOMAIN history : history[k] = observation) \/ i + 1 >= K

truncated_of(history, observation, i, K) ==
    (\E k \in DOMAIN history : history[k] = observation) \/ i >= K

(***************************************************************************)
(* The episode state machine                                               *)
(***************************************************************************)
\* step calls explored per episode: the largest budget and one call more
StepCap == MaxEpisodeStepsBound + 1

NoReturn ==
    [op |-> "none", observation |-> NoAttr, reward |-> 0,
     terminated |-> FALSE, truncated |-> FALSE, error |-> "none"]
NoCall == [observation |-> NoAttr, Amask |-> <<>>]
NoResult == [raised |-> "none", value |-> <<>>]

\* YunEnv.__init__ (with its Rule): no episode attribute exists yet
Init ==
    /\ rule \in Rules(MaxEnergyBound, MaxLevelBound)
    /\ max_episode_steps \in 1..MaxEpisodeStepsBound
    /\ train = FALSE
    /\ opponent = "None"
    /\ started = FALSE
    /\ agent_state = NoAttr
    /\ opponent_state = NoAttr
    /\ game_state = NoAttr
    /\ i_step = NoAttr
    /\ obs_history = <<>>
    /\ policy_call = NoCall
    /\ ret = NoReturn
    /\ ended = FALSE
    /\ overran = FALSE
    /\ fn = "none"
    /\ args = [f |-> "none"]
    /\ result = NoResult

\* reset that forgets to clear obs_history
Reset_keeps_history(tr, opp, e1, e2) ==
    /\ train' = IF tr = "None" THEN train ELSE (tr = "True")
    /\ opponent' = IF opp = "None" THEN opponent ELSE opp
    /\ game_state' = 0
    /\ IF train'
         THEN /\ agent_state' = e1
              /\ opponent_state' = e2
         ELSE /\ agent_state' = rule.init_energy
              /\ opponent_state' = rule.init_energy
    /\ i_step' = 0
    /\ obs_history' = obs_history
    /\ started' = TRUE
    /\ ended' = FALSE
    /\ overran' = FALSE
    /\ ret' = [op |-> "reset",
               observation |-> get_obs(rule, agent_state', opponent_state',
                                       game_state'),
               reward |-> 0, terminated |-> FALSE, truncated |-> FALSE,
               error |-> "none"]
    /\ UNCHANGED <<rule, max_episode_steps, policy_call, callvars>>

\* YunEnv.reset(opponent=opp, train=tr); tr, opp = "None" keep the old value
Reset(tr, opp, e1, e2) ==
    /\ train' = IF tr = "None" THEN train ELSE (tr = "True")
    /\ opponent' = IF opp = "None" THEN opponent ELSE opp
    /\ game_state' = 0
    /\ IF train'
         THEN /\ agent_state' = e1          \* np.random.randint(0, N)
              /\ opponent_state' = e2
         ELSE /\ agent_state' = rule.init_energy
              /\ opponent_state' = rule.init_energy
    /\ i_step' = 0
    /\ obs_history' = <<>>
    /\ started' = TRUE
    /\ ended' = FALSE
    /\ overran' = FALSE
    /\ ret' = [op |-> "reset",
               observation |-> get_obs(rule, agent_state', opponent_state',
                                       game_state'),
               reward |-> 0, terminated |-> FALSE, truncated |-> FALSE,
               error |-> "none"]
    /\ UNCHANGED <<rule, max_episode_steps, policy_call, callvars>>

\* step that hands the opponent's policy the agent's own observation
Step_agent_view(action, oppAct) ==
    /\ started
    /\ i_step < StepCap
    /\ ~overran
    /\ policy_call' =
         IF opponent # "None"
           THEN LET o == get_obs(rule, agent_state, opponent_state,
                                 game_state)
                IN  [observation |-> o,
                     Amask |-> YunEnv_available_actions(rule, o)]
           ELSE policy_call
    /\ LET r == Rule_step(rule, agent_state, opponent_state, action, oppAct)
           observation == get_obs(rule, r.agent, r.opponent, r.game)
       IN  /\ agent_state' = r.agent
           /\ opponent_state' = r.opponent
           /\ game_state' = r.game
           /\ obs_history' = Append(obs_history, observation)
           /\ i_step' = i_step + 1
           /\ ret' = [op |-> "step",
                      observation |-> observation,
                      reward |-> reward_of(r.game),
                      terminated |-> (r.game > 0),
                      truncated |-> truncated_of(obs_history, observation,
                                                 i_step + 1,
                                                 max_episode_steps),
                      error |-> "none"]
    /\ overran' = ended
    /\ ended' = (ended \/ ret'.terminated \/ ret'.truncated)
    /\ UNCHANGED <<rule, max_episode_steps, train, opponent, started,
                   callvars>>

\* YunEnv.step(action) once reset has run; oppAct is what the opponent's
\* policy returns or, without a policy, what action_space.sample() draws.
\* step itself never looks at whether the episode has ended; the callers
\* (test, eval.py) stop at the first terminated/truncated step, and here a
\* caller makes at most one call more.
Step(action, oppAct) ==
    /\ started
    /\ i_step < StepCap
    /\ ~overran
    /\ policy_call' =
         IF opponent # "None"
           THEN LET o == oppo_obs(rule, agent_state, opponent_state,
                                  game_state)
                IN  [observation |-> o,
                     Amask |-> YunEnv_available_actions(rule, o)]
           ELSE policy_call
    /\ LET r == Rule_step(rule, agent_state, opponent_state, action, oppAct)
           observation == get_obs(rule, r.agent, r.opponent, r.game)
       IN  /\ agent_state' = r.agent
           /\ opponent_state' = r.opponent
           /\ game_state' = r.game
           /\ obs_history' = Append(obs_history, observation)
           /\ i_step' = i_step + 1
           /\ ret' = [op |-> "step",
                      observation |-> observation,
                      reward |-> reward_of(r.game),
                      terminated |-> (r.game > 0),
                      truncated |-> truncated_of(obs_history, observation,
                                                 i_step + 1,
                                                 max_episode_steps),
                      error |-> "none"]
    /\ overran' = ended
    /\ ended' = (ended \/ ret'.terminated \/ ret'.truncated)
    /\ UNCHANGED <<rule, max_episode_steps, train, opponent, started,
                   callvars>>

\* step before any reset that returns as if nothing was wrong
StepBeforeReset_silent(action, oppAct) ==
    /\ ~started
    /\ ret' = [NoReturn EXCEPT !.op = "step"]
    /\ UNCHANGED <<rule, max_episode_steps, train, opponent, started,
                   agent_state, opponent_state, game_state, i_step,
                   obs_history, policy_call, ended, overran, callvars>>

\* YunEnv.step(action) before any reset: the read of self._agent_state
\* raises AttributeError
StepBeforeReset(action, oppAct) ==
    /\ ~started
    /\ ret' = [NoReturn EXCEPT !.op = "step", !.error = "AttributeError"]
    /\ UNCHANGED <<rule, max_episode_steps, train, opponent, started,
                   agent_state, opponent_state, game_state, i_step,
                   obs_history, policy_call, ended, overran, callvars>>

\* the energies are drawn only when training
DoReset ==
    \E tr \in {"None", "True", "False"}, opp \in {"None", "policy"} :
        LET draws == IF tr = "True" \/ (tr = "None" /\ train)
                       THEN 0..rule.n_max_energy ELSE {rule.init_energy}
        IN  \E e1 \in draws, e2 \in draws : Reset(tr, opp, e1, e2)
DoStep ==
    \E action \in action_space(rule), oppAct \in action_space(rule) :
        Step(action, oppAct)
DoStepBeforeReset ==
    \E action \in action_space(rule), oppAct \in action_space(rule) :
        StepBeforeReset(action, oppAct)

Next == DoReset \/ DoStep \/ DoStepBeforeReset

Spec == Init /\ [][Next]_vars

(***************************************************************************)
(* The episode state machine on any configuration: Rule.__init__ and       *)
(* YunEnv.__init__ store what they are given                               *)
(***************************************************************************)
AnyRules(maxE, maxL) ==
    UNION { { [n_max_energy |-> e, level |-> l, init_energy |-> i] :
                l \in 0..maxL, i \in (0 - 1)..(e + 1) } : e \in 0..maxE }

InitConfig ==
    /\ rule \in AnyRules(MaxEnergyBound, MaxLevelBound)
    /\ max_episode_steps \in 1..MaxEpisodeStepsBound
    /\ train = FALSE
    /\ opponent = "None"
    /\ started = FALSE
    /\ agent_state = NoAttr
    /\ opponent_state = NoAttr
    /\ game_state = NoAttr
    /\ i_step = NoAttr
    /\ obs_history = <<>>
    /\ policy_call = NoCall
    /\ ret = NoReturn
    /\ ended = FALSE
    /\ overran = FALSE
    /\ fn = "none"
    /\ args = [f |-> "none"]
    /\ result = NoResult

SpecConfig == InitConfig /\ [][Next]_vars

(***************************************************************************)
(* The pure functions applied to bounded inputs                            *)
(***************************************************************************)
\* action ids given to decode_action: the valid ones, some outside, None
Ids(r) == ((0 - IdSlack)..(2 * r.level + IdSlack)) \cup {None}

\* the valid actions as <<yun, attack, defense>>
Actions(r) == {<<1, 0, 0>>} \cup { <<0, l, 0>> : l \in 1..r.level }
                            \cup { <<0, 0, l>> : l \in 1..r.level }

ArgsOf(r) ==
    { [f |-> "Rule.step", s1 |-> s1, s2 |-> s2, a1 |-> a1, a2 |-> a2] :
        s1 \in 0..r.n_max_energy, s2 \in 0..r.n_max_energy,
        a1 \in action_space(r), a2 \in action_space(r) }
    \cup { [f |-> "decode_action", id |-> id] : id \in Ids(r) }
    \cup { [f |-> "encode_action", action |-> a] : a \in Actions(r) }
    \cup { [f |-> "Rule.available_actions", s1 |-> s1, s2 |-> s2] :
             s1 \in 0..r.n_max_energy, s2 \in 0..r.n_max_energy }
    \cup { [f |-> "YunEnv.available_actions", observation |-> o] :
             o \in 0..(observation_space_n(r) - 1) }

InitRule ==
    /\ rule \in Rules(RuleEnergyBound, RuleLevelBound)
    /\ max_episode_steps = 1
    /\ train = FALSE
    /\ opponent = "None"
    /\ started = FALSE
    /\ agent_state = NoAttr
    /\ opponent_state = NoAttr
    /\ game_state = NoAttr
    /\ i_step = NoAttr
    /\ obs_history = <<>>
    /\ policy_call = NoCall
    /\ ret = NoReturn
    /\ ended = FALSE
    /\ overran = FALSE
    /\ fn = "none"
    /\ args \in ArgsOf(rule)
    /\ result = NoResult

\* none of the functions has a raise statement: each call returns its value
Apply(f, value) ==
    /\ fn = "none"
    /\ args.f = f
    /\ fn' = f
    /\ result' = [raised |-> "none", value |-> value]
    /\ UNCHANGED <<rule, envvars, args>>

CallRuleStep ==
    /\ args.f = "Rule.step"
    /\ Apply("Rule.step", Rule_step(rule, args.s1, args.s2, args.a1, args.a2))
CallDecode ==
    /\ args.f = "decode_action"
    /\ Apply("decode_action", decode_action(rule, args.id))
CallEncode ==
    /\ args.f = "encode_action"
    /\ Apply("encode_action",
             encode_action(rule, args.action[1], args.action[2],
                           args.action[3]))
CallRuleMask ==
    /\ args.f = "Rule.available_actions"
    /\ Apply("Rule.available_actions",
             Rule_available_actions(rule, args.s1, args.s2))
CallEnvMask ==
    /\ args.f = "YunEnv.available_actions"
    /\ Apply("YunEnv.available_actions",
             YunEnv_available_actions(rule, args.observation))

NextRule ==
    CallRuleStep \/ CallDecode \/ CallEncode \/ CallRuleMask \/ CallEnvMask

SpecRule == InitRule /\ [][NextRule]_vars

(***************************************************************************)
(* Claims                                                                  *)
(***************************************************************************)
Stepped == fn = "Rule.step"
\* the agent's / the opponent's action of a Rule.step call, as the claims
\* name it: id 0 charges, 1..level attack, level+1..2*level defend
Attack1 == IF args.a1 \in 1..rule.level THEN args.a1 ELSE 0
Defend1 == IF args.a1 > rule.level THEN args.a1 - rule.level ELSE 0
Charge1 == IF args.a1 = 0 THEN 1 ELSE 0
Attack2 == IF args.a2 \in 1..rule.level THEN args.a2 ELSE 0
Defend2 == IF args.a2 > rule.level THEN args.a2 - rule.level ELSE 0
Charge2 == IF args.a2 = 0 THEN 1 ELSE 0

\* C1: after reset and any sequence of steps with action ids in
\* [0, 2*level] for both players, both energies are in [0, maxEnergy].
C1_EnergiesInRange ==
    started => /\ agent_state \in 0..rule.n_max_energy
               /\ opponent_state \in 0..rule.n_max_energy

\* a step punished the agent down to 0 while the opponent charged at the cap
C1_Witness ==
    /\ ret.op = "step"
    /\ game_state = 1
    /\ agent_state = 0
    /\ opponent_state = rule.n_max_energy
    /\ i_step > 1

\* C2: within the first K = max_episode_steps step calls after reset at
\* least one step has returned terminated or truncated.
C2_EndsWithinBudget ==
    (started /\ i_step >= max_episode_steps) => ended

\* the budget alone ended the episode at its K-th step, K = 3
C2_Witness ==
    /\ ret.op = "step"
    /\ max_episode_steps = 3
    /\ i_step = 3
    /\ ret.truncated
    /\ ~ret.terminated
    /\ ~overran
    /\ \A i \in 1..3 : \A j \in 1..3 : i # j => obs_history[i] # obs_history[j]

\* C3: once a step has returned terminated or truncated, no later step call
\* of the episode changes the energies, the outcome, the history or the
\* step counter.
C3_TerminalIsFrozen ==
    [][(ended /\ ret'.op = "step")
         => UNCHANGED <<agent_state, opponent_state, game_state,
                        obs_history, i_step>>]_vars

\* C4: an agent attack above the agent's energy ends with agentNext = 0 and
\* AgentLoses, whatever the opponent played.
C4_AgentPunished ==
    (Stepped /\ Attack1 > args.s1)
        => /\ result.raised = "none"
           /\ result.value.agent = 0
           /\ result.value.game = 1

\* the agent overspent against a higher attack the opponent could not afford
C4_Witness ==
    /\ Stepped
    /\ Attack1 > args.s1
    /\ Attack2 > Attack1
    /\ Attack2 > args.s2
    /\ result.value.game = 1

\* C5: an agent defense above the opponent's energy before the transition
\* ends with AgentLoses, whatever the opponent played.
C5_DefenseOverreach ==
    (Stepped /\ Defend1 > args.s2) => result.value.game = 1

\* the defense matches the opponent's next energy but exceeds the original
C5_Witness ==
    /\ Stepped
    /\ Defend1 > args.s2
    /\ Charge2 = 1
    /\ Defend1 = result.value.opponent
    /\ result.value.game = 1

\* C6: an opponent attack above the opponent's energy leaves the opponent
\* at 0 and counts as no attack: with a mask-legal agent action the outcome
\* is AgentWins if the agent attacked and Continue otherwise.
C6_Forgiveness ==
    (Stepped /\ Attack2 > args.s2)
        => /\ result.value.opponent = 0
           /\ Rule_available_actions(rule, args.s1, args.s2)[args.a1] = 1
                => result.value.game = (IF Attack1 > 0 THEN 2 ELSE 0)

\* the agent's lower, affordable attack wins against the forgiven higher one
C6_Witness ==
    /\ Stepped
    /\ Attack2 > args.s2
    /\ Attack1 > 0
    /\ Attack1 <= args.s1
    /\ Attack2 > Attack1
    /\ result.value.game = 2

\* C7: when neither punishment fires, Rule.step returns the capped energies
\* and AgentWins iff attack1 > 0, attack1 > attack2, attack1 # defend2,
\* otherwise AgentLoses iff attack2 > 0, attack2 > attack1, attack2 # defend1,
\* otherwise Continue, attack2 being the attack after forgiveness; worked
\* scenarios A and B come out as stated.
C7_Adjudication ==
    Stepped =>
      LET forgiven == args.s2 + Charge2 - Attack2 < 0
          at2 == IF forgiven THEN 0 ELSE Attack2
          expected ==
            [agent |-> Min(args.s1 + Charge1 - Attack1, rule.n_max_energy),
             opponent |-> IF forgiven THEN 0
                          ELSE Min(args.s2 + Charge2 - Attack2,
                                   rule.n_max_energy),
             game |-> IF Attack1 > 0 /\ Attack1 > at2 /\ Attack1 # Defend2
                        THEN 2
                      ELSE IF at2 > 0 /\ at2 > Attack1 /\ at2 # Defend1
                        THEN 1
                      ELSE 0]
          scenario == rule.n_max_energy = 5 /\ rule.level = 3
      IN  /\ (Attack1 <= args.s1 /\ Defend1 <= args.s2)
                => result.value = expected
          /\ (scenario /\ args.s1 = 2 /\ args.s2 = 2 /\ args.a1 = 2
                /\ args.a2 = 0)
                => result.value = [agent |-> 0, opponent |-> 3, game |-> 2]
          /\ (scenario /\ args.s1 = 3 /\ args.s2 = 3 /\ args.a1 = 2
                /\ args.a2 = 5)
                => result.value = [agent |-> 1, opponent |-> 3, game |-> 0]

\* worked scenario B: the matched defense neutralizes the attack
C7_Witness ==
    /\ Stepped
    /\ rule.n_max_energy = 5 /\ rule.level = 3
    /\ args.s1 = 3 /\ args.s2 = 3 /\ args.a1 = 2 /\ args.a2 = 5
    /\ result.value.game = 0

\* C8: encode(decode(id)) = id for every id in [0, 2*level], with id 0
\* Charge, 1..level attacks at that level, level+1..2*level defenses at
\* id - level; decode(encode(a)) = a for every valid action.
C8_CodecRoundTrip ==
    /\ (fn = "decode_action" /\ args.id \in 0..(2 * rule.level))
         => LET a == result.value
            IN  /\ encode_action(rule, a[1], a[2], a[3]) = args.id
                /\ a = IF args.id = 0 THEN <<1, 0, 0>>
                       ELSE IF args.id <= rule.level THEN <<0, args.id, 0>>
                       ELSE <<0, 0, args.id - rule.level>>
    /\ fn = "encode_action"
         => decode_action(rule, result.value) = args.action

\* the highest attack id decoded
C8_Witness ==
    /\ fn = "decode_action"
    /\ rule.level = 3
    /\ args.id = rule.level
    /\ result.value = <<0, 3, 0>>

OutOfRange == fn = "decode_action" /\ args.id \notin 0..(2 * rule.level)

\* C9 as stated: decode fails with InvalidActionError for every id outside
\* [0, 2*level], a missing id included.
C9_DecodeRejects == OutOfRange => result.raised = "InvalidActionError"

\* C9 amended: decode never fails: a missing id decodes to no charge, no
\* attack and no defense, an id below 0 to an attack at that (negative)
\* level, an id above 2*level to a defense at level id - level > level;
\* none of these is a valid action.
C9_DecodeAcceptsAll ==
    OutOfRange
      => /\ result.raised = "none"
         /\ result.value \notin Actions(rule)
         /\ result.value = IF args.id = None THEN <<0, 0, 0>>
                           ELSE IF args.id < 0 THEN <<0, args.id, 0>>
                           ELSE <<0, 0, args.id - rule.level>>

\* the missing id decoded
C9_Witness ==
    /\ OutOfRange
    /\ args.id = None
    /\ result.value = <<0, 0, 0>>

\* C10: the mask has index 0 set, attack index a set iff a <= ownEnergy,
\* defend index level + d set iff d <= opponentEnergy; the mask of a
\* sentinel observation is all set, that of a live observation is the mask
\* of its energies.
MaskOf(m, own, opp) ==
    /\ DOMAIN m = 0..(2 * rule.level)
    /\ m[0] = 1
    /\ \A a \in 1..rule.level : (m[a] = 1 <=> a <= own) /\ m[a] \in {0, 1}
    /\ \A d \in 1..rule.level :
         (m[rule.level + d] = 1 <=> d <= opp) /\ m[rule.level + d] \in {0, 1}

C10_LegalityMask ==
    /\ fn = "Rule.available_actions"
         => MaskOf(result.value, args.s1, args.s2)
    /\ fn = "YunEnv.available_actions"
         => /\ result.raised = "none"
            /\ IF args.observation >= N(rule) * N(rule)
                 THEN /\ DOMAIN result.value = 0..(2 * rule.level)
                      /\ \A i \in 0..(2 * rule.level) : result.value[i] = 1
                 ELSE MaskOf(result.value, args.observation \div N(rule),
                             args.observation % N(rule))

\* a mask whose attack and defense parts differ and are both partial
C10_Witness ==
    /\ fn = "Rule.available_actions"
    /\ rule.level = 3
    /\ args.s1 = 1
    /\ args.s2 = 2
    /\ result.value[2] = 0
    /\ result.value[5] = 1
    /\ result.value[6] = 0

\* the opponent's observation of the round whose agent observation is obs:
\* _oppo_obs on the energies and outcome that obs encodes
Mirror(obs) ==
    IF obs < N(rule) * N(rule)
      THEN LET s == convert_states(obs, rule)
           IN  oppo_obs(rule, s[1], s[2], 0)
    ELSE IF obs = loss_state_id(rule) THEN oppo_obs(rule, 0, 0, 1)
    ELSE oppo_obs(rule, 0, 0, 2)

Returned == ret.op \in {"reset", "step"} /\ ret.error = "none"

\* C11: in every episode state the opponent's observation is the agent's
\* with own and opp swapped when the outcome is Continue and with the two
\* sentinels swapped when terminal, and mirroring twice gives back every
\* observation in [0, (maxEnergy+1)^2 + 1].
C11_MirrorInvolution ==
    started =>
      LET mine == get_obs(rule, agent_state, opponent_state, game_state)
          theirs == oppo_obs(rule, agent_state, opponent_state, game_state)
      IN  /\ theirs = Mirror(mine)
          /\ game_state = 0
               => /\ convert_states(theirs, rule)
                     = <<opponent_state, agent_state>>
                  /\ convert_states(mine, rule)
                     = <<agent_state, opponent_state>>
          /\ game_state = 1
               => mine = loss_state_id(rule) /\ theirs = win_state_id(rule)
          /\ game_state = 2
               => mine = win_state_id(rule) /\ theirs = loss_state_id(rule)
          /\ \A o \in 0..(observation_space_n(rule) - 1) :
               Mirror(Mirror(o)) = o

\* the agent has just lost: the opponent sees the win sentinel
C11_Witness ==
    /\ ret.op = "step"
    /\ game_state = 1
    /\ ret.observation = loss_state_id(rule)
    /\ oppo_obs(rule, agent_state, opponent_state, game_state)
         = win_state_id(rule)

\* C12: the observation returned to the agent is own*(maxEnergy+1) + opp,
\* below (maxEnergy+1)^2, exactly when the outcome is Continue, and then
\* decodes to the two energies; it is (maxEnergy+1)^2 exactly when the
\* outcome is AgentLoses and (maxEnergy+1)^2 + 1 exactly when AgentWins.
C12_ObservationEncoding ==
    Returned =>
      LET sq == (rule.n_max_energy + 1) * (rule.n_max_energy + 1)
          o == ret.observation
      IN  /\ game_state = 0
               <=> (o < sq /\ o = agent_state * (rule.n_max_energy + 1)
                                   + opponent_state)
          /\ game_state = 0
               => convert_states(o, rule) = <<agent_state, opponent_state>>
          /\ game_state = 1 <=> o = sq
          /\ game_state = 2 <=> o = sq + 1
          /\ o \in 0..(sq + 1)

\* a live observation of two different energies, the agent's at the cap
C12_Witness ==
    /\ ret.op = "step"
    /\ game_state = 0
    /\ agent_state = rule.n_max_energy
    /\ opponent_state < agent_state
    /\ ret.observation = agent_state * N(rule) + opponent_state

\* C13: a step returns truncated iff its observation is among those the
\* earlier steps of the episode appended to the history or stepCount + 1 >=
\* maxEpisodeSteps; every step appends its observation to the history.
C13_TruncationRule ==
    started =>
      /\ Len(obs_history) = i_step
      /\ ret.op = "step"
           => /\ obs_history[i_step] = ret.observation
              /\ ret.truncated
                   <=> \/ \E k \in 1..(i_step - 1) :
                            obs_history[k] = ret.observation
                       \/ i_step >= max_episode_steps

\* a live observation recurred before the budget was used up
C13_Witness ==
    /\ ret.op = "step"
    /\ ret.truncated
    /\ ~ret.terminated
    /\ ~overran
    /\ i_step < max_episode_steps
    /\ \E k \in 1..(i_step - 1) : obs_history[k] = ret.observation

\* C14: a step's reward is +1 iff the outcome is AgentWins, -1 iff
\* AgentLoses, 0 iff Continue, and terminated = (outcome # Continue); so
\* reward # 0 iff terminated iff the returned observation is a sentinel.
C14_RewardAndTerminated ==
    (ret.op = "step" /\ started) =>
      /\ ret.reward = 1 <=> game_state = 2
      /\ ret.reward = 0 - 1 <=> game_state = 1
      /\ ret.reward = 0 <=> game_state = 0
      /\ ret.terminated <=> game_state # 0
      /\ ret.reward # 0 <=> ret.terminated
      /\ ret.terminated <=> ret.observation >= N(rule) * N(rule)

\* the agent has just won
C14_Witness ==
    /\ ret.op = "step"
    /\ game_state = 2
    /\ ret.reward = 1
    /\ ret.terminated
    /\ ret.observation = win_state_id(rule)

\* C15: reset, from whatever state, leaves outcome Continue, an empty
\* history, step counter 0, both energies at initEnergy (when randomizing,
\* each in [0, maxEnergy]) and returns the live observation of them.
C15_ResetStartsEpisode ==
    ret.op = "reset" =>
      /\ started
      /\ game_state = 0
      /\ obs_history = <<>>
      /\ i_step = 0
      /\ ~ended
      /\ IF train
           THEN /\ agent_state \in 0..rule.n_max_energy
                /\ opponent_state \in 0..rule.n_max_energy
           ELSE /\ agent_state = rule.init_energy
                /\ opponent_state = rule.init_energy
      /\ ret.observation = agent_state * N(rule) + opponent_state
      /\ ret.observation < N(rule) * N(rule)
      /\ ~ret.terminated /\ ~ret.truncated

\* reset after an episode that was stepped even beyond its terminal state
C15_Witness ==
    /\ ret.op = "reset"
    /\ policy_call.observation >= N(rule) * N(rule)
    /\ ~train
    /\ obs_history = <<>>
    /\ i_step = 0

\* C16 as stated: step on a controller never reset fails with
\* LifecycleError.
C16_LifecycleError ==
    (~started /\ ret.op = "step") => ret.error = "LifecycleError"

\* C16 amended: step on a controller never reset fails with Python's
\* AttributeError (the episode attributes do not exist yet); it returns
\* nothing and creates no episode state.
C16_StepBeforeResetFails ==
    (~started /\ ret.op = "step")
      => /\ ret.error = "AttributeError"
         /\ ret.observation = NoAttr
         /\ agent_state = NoAttr /\ opponent_state = NoAttr
         /\ game_state = NoAttr /\ i_step = NoAttr
         /\ obs_history = <<>>

\* step was called on a controller never reset
C16_Witness ==
    /\ ~started
    /\ ret.op = "step"
    /\ ret.error = "AttributeError"

ValidConfig ==
    /\ rule.level >= 1
    /\ rule.n_max_energy >= 1
    /\ rule.init_energy \in 0..rule.n_max_energy

\* C17: an invalid configuration (level < 1, maxEnergy < 1, initEnergy
\* outside [0, maxEnergy]) is rejected at construction, so every episode
\* runs on a valid configuration and starts with energies in
\* [0, maxEnergy].
C17_ConfigValidated ==
    started => /\ ValidConfig
               /\ ret.op = "reset"
                    => /\ agent_state \in 0..rule.n_max_energy
                       /\ opponent_state \in 0..rule.n_max_energy

\* C18: a step with an opponent policy calls it with the mirror of the
\* observation last returned to the agent and with the legality mask of
\* that mirrored observation: for a live observation, attack bits by the
\* opponent's energy and defend bits by the agent's energy before the
\* transition.
C18_PolicyArguments ==
    [][(started /\ ret'.op = "step" /\ opponent # "None")
         => LET o == Mirror(ret.observation)
            IN  /\ policy_call'.observation = o
                /\ policy_call'.Amask = YunEnv_available_actions(rule, o)
                /\ game_state = 0
                     => /\ o = opponent_state * (rule.n_max_energy + 1)
                                 + agent_state
                        /\ MaskOf(policy_call'.Amask, opponent_state,
                                  agent_state)
                /\ game_state # 0
                     => \A i \in 0..(2 * rule.level) :
                          policy_call'.Amask[i] = 1]_vars

\* the policy was asked at a live state with an empty-handed opponent and
\* an agent that holds energy: attack 1 illegal, defense 1 legal
C18_Witness ==
    /\ started
    /\ ret.op = "step"
    /\ opponent = "policy"
    /\ policy_call.observation \in 1..(N(rule) - 1)
    /\ policy_call.Amask[1] = 0
    /\ policy_call.Amask[rule.level + 1] = 1

\* C19: every step whose observation equals one already seen in the
\* episode, the initial observation returned by reset included, returns
\* truncated.  The observations seen that the state still holds are those
\* in the history and the one last returned, which before the first step
\* is reset's.
C19_RecurrenceTruncates ==
    [][(started /\ ret'.op = "step")
         => ((\/ ret'.observation = ret.observation
              \/ \E k \in DOMAIN obs_history :
                   obs_history[k] = ret'.observation)
               => ret'.truncated)]_vars

\* C20 as stated: up to the first terminal step of an episode no step
\* returns truncated together with terminated.
C20_TruncatedHasNoWinner ==
    (started /\ ret.op = "step" /\ ~overran)
      => ~(ret.truncated /\ ret.terminated)

\* C20 amended: up to the first terminal step of an episode a step returns
\* truncated together with terminated only when it uses up the budget
\* (stepCount + 1 >= maxEpisodeSteps), never by a recurring observation;
\* a truncated step that is not terminated has reward 0.
C20_WinnerOnlyAtBudget ==
    (started /\ ret.op = "step" /\ ~overran)
      => /\ (ret.truncated /\ ret.terminated)
              => /\ i_step >= max_episode_steps
                 /\ \A k \in 1..(i_step - 1) :
                      obs_history[k] # ret.observation
         /\ (ret.truncated /\ ~ret.terminated) => ret.reward = 0

\* the agent wins with the last step of a budget of 3
C20_Witness ==
    /\ started
    /\ ret.op = "step"
    /\ ~overran
    /\ max_episode_steps = 3
    /\ i_step = 3
    /\ ret.truncated
    /\ ret.terminated
    /\ ret.reward = 1

\* the agent's action is legal under legalityMask(s1, s2), the opponent's
\* under legalityMask(s2, s1)
Legal1 == Rule_available_actions(rule, args.s1, args.s2)[args.a1] = 1
Legal2 == Rule_available_actions(rule, args.s2, args.s1)[args.a2] = 1

\* C21: under legal play of both, Rule.step(e1, e2, a, b) = (n1, n2, o)
\* implies Rule.step(e2, e1, b, a) = (n2, n1, o') with o' being o with
\* AgentWins and AgentLoses exchanged.
C21_RoleSymmetry ==
    (Stepped /\ Legal1 /\ Legal2) =>
      LET other == Rule_step(rule, args.s2, args.s1, args.a2, args.a1)
          g == result.value.game
      IN  /\ other.agent = result.value.opponent
          /\ other.opponent = result.value.agent
          /\ other.game = IF g = 2 THEN 1 ELSE IF g = 1 THEN 2 ELSE 0

\* both attack legally and the agent's higher attack wins
C21_Witness ==
    /\ Stepped /\ Legal1 /\ Legal2
    /\ Attack2 > 0
    /\ Attack1 > Attack2
    /\ result.value.game = 2
    /\ Rule_step(rule, args.s2, args.s1, args.a2, args.a1).game = 1

\* C22: a mask-legal agent action is never punished, whatever the opponent
\* plays: the agent keeps energy + charge - attack (capped), and loses only
\* to an affordable opponent attack higher than the agent's attack and
\* different from the agent's defense level.
C22_MaskSoundness ==
    (Stepped /\ Legal1) =>
      /\ Attack1 <= args.s1
      /\ Defend1 <= args.s2
      /\ result.value.agent
           = Min(args.s1 + Charge1 - Attack1, rule.n_max_energy)
      /\ result.value.game = 1
           => /\ Attack2 > 0
              /\ Attack2 <= args.s2
              /\ Attack2 > Attack1
              /\ Attack2 # Defend1

\* the highest legal defense, beaten by a lower affordable attack
C22_Witness ==
    /\ Stepped /\ Legal1
    /\ Defend1 = args.s2
    /\ Attack2 > 0
    /\ Attack2 < Defend1
    /\ result.value.game = 1
====
